---- MODULE Spec2Model ----
\* A state-machine model of src/src/main.cpp: one run of main, from the argument
\* check to its return, with the Trie class it uses.
\*
\* Arrays (text, sa, isa, lcp, dk, nodes_) are functions over 0..size-1, so the
\* indices are the source's. Bytes are 0..MaxByte.
EXTENDS Integers, Sequences, FiniteSets, TLC

\* ---------------------------------------------------------------- bounds
\* Longest input file, in bytes.
MaxLen == 4
\* Largest byte value that occurs in an input file.
MaxByte == 3
\* Largest value of the [prefix] argument.
MaxPrefix == 2
\* Longest input file of the runs on long texts.
LongLen == 8

\* ---------------------------------------------------------------- helpers
Size(f) == Cardinality(DOMAIN f)

FromSeq(s) == [i \in 0..(Len(s) - 1) |-> s[i + 1]]

Max(a, b) == IF a < b THEN b ELSE a

Min(a, b) == IF b < a THEN b ELSE a

\* ---------------------------------------------------------------- Trie
NIL == -1

ROOT == 0

Node(label, first_child, next_sibling) ==
    [label |-> label, first_child |-> first_child, next_sibling |-> next_sibling]

\* create_node: push_back of Node{label, NIL, NIL}; the new node's number is the
\* old size.
create_node(nodes, label) ==
    [i \in 0..Size(nodes) |-> IF i = Size(nodes) THEN Node(label, NIL, NIL) ELSE nodes[i]]

\* Trie(): the root.
TrieInit == create_node(<<>>, 0)

\* Lines 62-64 without the unlinking of v from its predecessor.
move_to_front_nounlink(nodes, u, prev, v) ==
    LET n2 == [nodes EXCEPT ![v].next_sibling = nodes[u].first_child]
    IN  [n2 EXCEPT ![u].first_child = v]

\* Lines 62-64: v, whose predecessor in u's child list is prev, is spliced to
\* the front.
move_to_front(nodes, u, prev, v) ==
    LET n1 == [nodes EXCEPT ![prev].next_sibling = nodes[v].next_sibling]
        n2 == [n1 EXCEPT ![v].next_sibling = n1[u].first_child]
    IN  [n2 EXCEPT ![u].first_child = v]

\* The while loop of try_get_child from the state (prev, v): the record
\* [found, out, nodes], out being the value left in the out parameter.
RECURSIVE try_get_child_scan(_, _, _, _, _, _)
try_get_child_scan(nodes, u, c, prev, v, out) ==
    IF v = NIL
    THEN [found |-> FALSE, out |-> out, nodes |-> nodes]
    ELSE IF nodes[v].label = c
         THEN [found |-> TRUE, out |-> v,
               nodes |-> IF prev # NIL THEN move_to_front(nodes, u, prev, v) ELSE nodes]
         ELSE try_get_child_scan(nodes, u, c, v, nodes[v].next_sibling, out)

\* A scan that returns the child without moving it to the front.
try_get_child_nomove(nodes, u, c, out) ==
    LET res == try_get_child_scan(nodes, u, c, NIL, nodes[u].first_child, out)
    IN  [res EXCEPT !.nodes = nodes]

\* A scan that clears the out parameter when it finds nothing.
try_get_child_clobber(nodes, u, c, out) ==
    LET res == try_get_child_scan(nodes, u, c, NIL, nodes[u].first_child, out)
    IN  IF res.found THEN res ELSE [res EXCEPT !.out = ROOT]

\* try_get_child(u, c, out), out holding `out` at the call.
try_get_child(nodes, u, c, out) ==
    try_get_child_scan(nodes, u, c, NIL, nodes[u].first_child, out)

\* insert_child that does not link the new node to the old first child.
insert_child_drop(nodes, u, c) ==
    LET v  == Size(nodes)
        n1 == create_node(nodes, c)
    IN  [n1 EXCEPT ![u].first_child = v]

\* insert_child(u, c): the node store afterwards; the new node is Size(nodes).
insert_child(nodes, u, c) ==
    LET v  == Size(nodes)
        n1 == create_node(nodes, c)
        n2 == [n1 EXCEPT ![v].next_sibling = n1[u].first_child]
    IN  [n2 EXCEPT ![u].first_child = v]

\* ---------------------------------------------------------------- sdsl
\* Keys of the cache configuration and the files of the run.
KEY_TEXT == "text"

KEY_SA == "sa"

KEY_ISA == "isa"

KEY_LCP == "lcp"

\* argv[1], argv[3], argv[4].
ArgFile == "FILE"

ArgSA == "SAFILE"

ArgLCP == "LCPFILE"

\* sdsl::cache_file_name(key, cc): the file registered for key in cc.file_map,
\* else the default name in the cache directory.
cache_file_name(key, fm) ==
    IF key \in DOMAIN fm THEN fm[key] ELSE key \o ".sdsl"

\* cc.file_map[key] = name
Register(fm, key, name) ==
    [k \in DOMAIN fm \cup {key} |-> IF k = key THEN name ELSE fm[k]]

\* i < j as suffixes of t (t ends with its only 0, so the scan ends at a
\* difference).
RECURSIVE SuffixLess(_, _, _)
SuffixLess(t, i, j) ==
    IF i = j THEN FALSE
    ELSE IF t[i] # t[j] THEN t[i] < t[j]
    ELSE SuffixLess(t, i + 1, j + 1)

SuffixRank(t, i) == Cardinality({j \in DOMAIN t : SuffixLess(t, j, i)})

\* sdsl::construct_sa<8>: the suffix array of t.
construct_sa(t) ==
    [p \in DOMAIN t |-> CHOOSE i \in DOMAIN t : SuffixRank(t, i) = p]

\* sdsl::construct_isa: the inverse of the suffix array.
construct_isa(s) ==
    [i \in DOMAIN s |-> CHOOSE p \in DOMAIN s : s[p] = i]

\* Longest common prefix of the suffixes i and j of t.
RECURSIVE SuffixLcp(_, _, _)
SuffixLcp(t, i, j) ==
    IF i >= Size(t) \/ j >= Size(t) \/ t[i] # t[j] THEN 0
    ELSE 1 + SuffixLcp(t, i + 1, j + 1)

\* sdsl::construct_lcp_PHI<8>: the LCP array of t and its suffix array s.
construct_lcp(t, s) ==
    [p \in DOMAIN s |-> IF p = 0 THEN 0 ELSE SuffixLcp(t, s[p - 1], s[p])]

\* ---------------------------------------------------------------- state
VARIABLES
    argc,       \* number of arguments, program name included
    prefixArg,  \* std::atoll(argv[2]) when argc >= 3
    file,       \* the bytes of the file argv[1]
    pc,         \* position in main
    exit_code,  \* main's return value once pc = "exit"
    out,        \* the fields written to standard output, in order
    files,      \* names of the files on disk
    file_map,   \* cc.file_map
    text,       \* the text, sentinel included
    sa, isa, lcp,
    i,          \* the loop variable of the running loop
    sigma,
    r, last,
    nodes_, v, z78,
    phrases,    \* history: the phrases counted by z78
    phrase_start, \* history: where the current LZ78 match began
    z77,
    factors,    \* history: [start, len, max_lcp] of each LZ77 factor
    dk, x, delta, k

vars == <<argc, prefixArg, file, pc, exit_code, out, files, file_map, text, sa, isa,
          lcp, i, sigma, r, last, nodes_, v, z78, phrases, phrase_start, z77,
          factors, dk, x, delta, k>>

n == Size(text)

actual_n == n - 1

\* The files on disk when the run starts.
InitialFiles(ac) ==
    (IF ac >= 2 THEN {ArgFile} ELSE {})
    \cup (IF ac >= 4 THEN {ArgSA} ELSE {})
    \cup (IF ac >= 5 THEN {ArgLCP} ELSE {})

InputFiles == UNION {[1..l -> 0..MaxByte] : l \in 0..MaxLen}

\* The state after the arguments are fixed and before main's first statement,
\* for a number of arguments in argcs and a file in inputs.
InitOf(argcs, inputs) ==
    /\ argc \in argcs
    /\ prefixArg \in (IF argc >= 3 THEN 0..MaxPrefix ELSE {0})
    /\ file \in (IF argc >= 2 THEN inputs ELSE {<<>>})
    /\ pc = "start"
    /\ exit_code = 0
    /\ out = <<>>
    /\ files = InitialFiles(argc)
    /\ file_map = <<>>
    /\ text = <<>>
    /\ sa = <<>> /\ isa = <<>> /\ lcp = <<>>
    /\ i = 0
    /\ sigma = 0
    /\ r = 0 /\ last = 0
    /\ nodes_ = <<>> /\ v = 0 /\ z78 = 0
    /\ phrases = <<>> /\ phrase_start = 0
    /\ z77 = 0
    /\ factors = <<>>
    /\ dk = <<>> /\ x = 0 /\ delta = <<0, 1>> /\ k = 0

Init == InitOf(1..5, InputFiles)

\* Largest byte of s, 0 for the empty sequence.
RECURSIVE MaxOf(_)
MaxOf(s) == IF s = <<>> THEN 0 ELSE Max(s[Len(s)], MaxOf(SubSeq(s, 1, Len(s) - 1)))

\* The files of l non-zero bytes in which the byte values first occur in
\* increasing order (one file for each renaming of the bytes).
RECURSIVE Canon(_)
Canon(l) ==
    IF l = 0 THEN {<<>>}
    ELSE UNION {{Append(s, b) : b \in 1..Min(MaxOf(s) + 1, MaxByte)} : s \in Canon(l - 1)}

\* Every short file, and the longer files up to a renaming of their bytes.
LongFiles == InputFiles \cup UNION {Canon(l) : l \in (MaxLen + 1)..LongLen}

\* Runs without the optional arguments, on files up to LongLen bytes.
InitLong == InitOf(1..2, LongFiles)

\* ---------------------------------------------------------------- load file
\* Lines 93-97 and 109-115: the bytes read into s. prefix is SIZE_MAX, above
\* every file length, unless argv[2] is given and non-zero.
ReadFile(f, ac, pa) ==
    IF ac >= 3 /\ pa # 0 THEN SubSeq(f, 1, Min(Len(f), pa)) ELSE f

\* Line 120: some s[i] == 0 with i < s.size() - 1 (s as a 0-based array).
HasInteriorZero(s) ==
    \E j \in DOMAIN s : s[j] = 0 /\ j < Size(s) - 1

append_zero_symbol(t) ==
    [j \in 0..Size(t) |-> IF j = Size(t) THEN 0 ELSE t[j]]

\* A loader that appends the sentinel whatever the last byte is.
LoadTextAlways(s) == append_zero_symbol(s)

\* Lines 118-126 on an s that passed the zero check.
LoadText(s) ==
    IF s[Size(s) - 1] # 0 THEN append_zero_symbol(s) ELSE s

\* Lines 88-91.
Usage ==
    /\ pc = "start"
    /\ argc < 2
    /\ exit_code' = -1
    /\ pc' = "exit"
    /\ UNCHANGED <<argc, prefixArg, file, out, files, file_map, text, sa, isa, lcp, i,
                   sigma, r, last, nodes_, v, z78, phrases, phrase_start, z77,
                   factors, dk, x, delta, k>>

\* Lines 119-123: an interior zero byte.
RejectZero ==
    /\ pc = "start"
    /\ argc >= 2
    /\ LET s == FromSeq(ReadFile(file, argc, prefixArg))
       IN  /\ Size(s) > 0
           /\ HasInteriorZero(s)
    /\ exit_code' = -2
    /\ pc' = "exit"
    /\ UNCHANGED <<argc, prefixArg, file, out, files, file_map, text, sa, isa, lcp, i,
                   sigma, r, last, nodes_, v, z78, phrases, phrase_start, z77,
                   factors, dk, x, delta, k>>

\* Lines 105-128: the text is loaded and stored to the cache.
LoadFile ==
    /\ pc = "start"
    /\ argc >= 2
    /\ LET s == FromSeq(ReadFile(file, argc, prefixArg))
       IN  /\ Size(s) > 0
           /\ ~HasInteriorZero(s)
           /\ text' = LoadText(s)
    /\ files' = files \cup {cache_file_name(KEY_TEXT, file_map)}
    /\ file_map' = Register(file_map, KEY_TEXT, cache_file_name(KEY_TEXT, file_map))
    /\ pc' = "sa"
    /\ UNCHANGED <<argc, prefixArg, file, exit_code, out, sa, isa, lcp, i,
                   sigma, r, last, nodes_, v, z78, phrases, phrase_start, z77,
                   factors, dk, x, delta, k>>

\* Line 126 on an empty s reads text[SIZE_MAX] of an empty vector: undefined.
\* The run crashes at the read, or the read yields a non-zero value and the
\* sentinel is appended, or it yields zero and the run crashes in the first
\* loop over the text (actual_n wraps to SIZE_MAX), its text cache file stored.
LoadEmpty ==
    /\ pc = "start"
    /\ argc >= 2
    /\ Len(ReadFile(file, argc, prefixArg)) = 0
    /\ \E outcome \in {"crash", "nonzero", "zero"} :
          /\ text' = IF outcome = "nonzero" THEN append_zero_symbol(<<>>) ELSE text
          /\ files' = IF outcome = "crash" THEN files
                      ELSE files \cup {cache_file_name(KEY_TEXT, file_map)}
          /\ file_map' = IF outcome = "crash" THEN file_map
                         ELSE Register(file_map, KEY_TEXT,
                                       cache_file_name(KEY_TEXT, file_map))
          /\ pc' = IF outcome = "nonzero" THEN "sa" ELSE "crash"
    /\ UNCHANGED <<argc, prefixArg, file, exit_code, out, sa, isa, lcp, i,
                   sigma, r, last, nodes_, v, z78, phrases, phrase_start, z77,
                   factors, dk, x, delta, k>>

\* Lines 135-158: the suffix array, loaded from argv[3] or constructed. The
\* file argv[3] is taken to hold the suffix array of the text.
SuffixArray ==
    /\ pc = "sa"
    /\ sa' = construct_sa(text)
    /\ IF argc >= 4
       THEN /\ file_map' = Register(file_map, KEY_SA, ArgSA)
            /\ files' = files
       ELSE /\ files' = files \cup {cache_file_name(KEY_SA, file_map)}
            /\ file_map' = Register(file_map, KEY_SA, cache_file_name(KEY_SA, file_map))
    /\ pc' = "header"
    /\ UNCHANGED <<argc, prefixArg, file, exit_code, out, text, isa, lcp, i,
                   sigma, r, last, nodes_, v, z78, phrases, phrase_start, z77,
                   factors, dk, x, delta, k>>

\* Lines 176-185: the number of byte values with a positive count.
Sigma(t) == Cardinality({t[j] : j \in 0..(Size(t) - 2)})

\* Lines 163-186: "RESULT file=", n and sigma (h0, a logarithm, is not modelled).
Header ==
    /\ pc = "header"
    /\ sigma' = Sigma(text)
    /\ out' = out \o << <<"n", actual_n>>, <<"sigma", Sigma(text)>> >>
    /\ pc' = "bwt_start"
    /\ UNCHANGED <<argc, prefixArg, file, exit_code, files, file_map, text, sa, isa,
                   lcp, i, r, last, nodes_, v, z78, phrases, phrase_start, z77,
                   factors, dk, x, delta, k>>

\* ---------------------------------------------------------------- BWT runs
\* Lines 192-195.
bwt(t, s, p) ==
    LET j == s[p] IN IF j > 0 THEN t[j - 1] ELSE t[Size(t) - 1]

\* A counter that counts every change of symbol.
CountRunEvery(l, c, cnt) == IF c # l THEN cnt + 1 ELSE cnt

\* Line 200.
CountRun(l, c, cnt) == IF l # 0 /\ c # l THEN cnt + 1 ELSE cnt

\* Lines 189-197.
BwtStart ==
    /\ pc = "bwt_start"
    /\ r' = 0
    /\ last' = bwt(text, sa, 0)
    /\ i' = 1
    /\ pc' = "bwt"
    /\ UNCHANGED <<argc, prefixArg, file, exit_code, out, files, file_map, text, sa,
                   isa, lcp, sigma, nodes_, v, z78, phrases, phrase_start, z77,
                   factors, dk, x, delta, k>>

\* Lines 198-202: one iteration.
BwtStep ==
    /\ pc = "bwt"
    /\ i < n
    /\ LET c == bwt(text, sa, i)
       IN  /\ r' = CountRun(last, c, r)
           /\ last' = c
    /\ i' = i + 1
    /\ UNCHANGED <<argc, prefixArg, file, pc, exit_code, out, files, file_map, text,
                   sa, isa, lcp, sigma, nodes_, v, z78, phrases, phrase_start, z77,
                   factors, dk, x, delta, k>>

\* Line 204.
BwtEnd ==
    /\ pc = "bwt"
    /\ i >= n
    /\ out' = Append(out, <<"r", r>>)
    /\ pc' = "lz78_start"
    /\ UNCHANGED <<argc, prefixArg, file, exit_code, files, file_map, text, sa, isa,
                   lcp, i, sigma, r, last, nodes_, v, z78, phrases, phrase_start,
                   z77, factors, dk, x, delta, k>>


\* ---------------------------------------------------------------- LZ78
\* The bytes t[a..b) as a sequence.
Sub(t, a, b) == [j \in 1..(b - a) |-> t[a + j - 1]]

\* Lines 207-212.
Lz78Start ==
    /\ pc = "lz78_start"
    /\ z78' = 0
    /\ nodes_' = TrieInit
    /\ v' = ROOT
    /\ i' = 0
    /\ phrases' = <<>>
    /\ phrase_start' = 0
    /\ pc' = "lz78"
    /\ UNCHANGED <<argc, prefixArg, file, exit_code, out, files, file_map, text, sa,
                   isa, lcp, sigma, r, last, z77, factors, dk, x, delta, k>>

\* Lines 213-220: one iteration. v is passed both as u (by value) and as out
\* (by reference); insert_child reads v after the call.
Lz78Step ==
    /\ pc = "lz78"
    /\ i < actual_n
    /\ LET c   == text[i]
           res == try_get_child(nodes_, v, c, v)
       IN  IF res.found
           THEN /\ nodes_' = res.nodes
                /\ v' = res.out
                /\ UNCHANGED <<z78, phrases, phrase_start>>
           ELSE /\ nodes_' = insert_child(res.nodes, res.out, c)
                /\ v' = ROOT
                /\ z78' = z78 + 1
                /\ phrases' = Append(phrases, Sub(text, phrase_start, i + 1))
                /\ phrase_start' = i + 1
    /\ i' = i + 1
    /\ UNCHANGED <<argc, prefixArg, file, pc, exit_code, out, files, file_map, text,
                   sa, isa, lcp, sigma, r, last, z77, factors, dk, x, delta, k>>

\* Lines 221-223: the final phrase and the output of z78.
Lz78End ==
    /\ pc = "lz78"
    /\ i >= actual_n
    /\ z78' = IF v # ROOT THEN z78 + 1 ELSE z78
    /\ phrases' = IF v # ROOT THEN Append(phrases, Sub(text, phrase_start, i))
                  ELSE phrases
    /\ out' = Append(out, <<"z78", IF v # ROOT THEN z78 + 1 ELSE z78>>)
    /\ pc' = "lz77_start"
    /\ UNCHANGED <<argc, prefixArg, file, exit_code, files, file_map, text, sa, isa,
                   lcp, i, sigma, r, last, nodes_, v, phrase_start, z77, factors,
                   dk, x, delta, k>>

\* ---------------------------------------------------------------- LZ77
\* Lines 236-241, the loop from l.
RECURSIVE lce_from(_, _, _, _)
lce_from(t, a, b, l) ==
    IF a + l < Size(t) - 1 /\ b + l < Size(t) - 1 /\ t[a + l] = t[b + l]
    THEN lce_from(t, a, b, l + 1)
    ELSE l

lce(t, a, b) == lce_from(t, a, b, 0)

\* Line 244.
RECURSIVE psv_scan(_, _, _)
psv_scan(s, a, p) ==
    IF p >= 0 /\ s[p] > a THEN psv_scan(s, a, p - 1) ELSE p

\* Line 248.
RECURSIVE nsv_scan(_, _, _, _)
nsv_scan(s, a, p, an) ==
    IF p < an /\ s[p] > a THEN nsv_scan(s, a, p + 1, an) ELSE p

\* Lines 243-252: max_lcp of the factor that starts at a.
max_lcp(t, s, inv, a) ==
    LET an       == Size(t) - 1
        cur_pos  == inv[a]
        psv_pos  == psv_scan(s, a, cur_pos - 1)
        psv_lcp  == IF psv_pos >= 0 THEN lce(t, a, s[psv_pos]) ELSE 0
        nsv_pos  == nsv_scan(s, a, cur_pos + 1, an)
        nsv_lcp  == IF nsv_pos < an THEN lce(t, a, s[nsv_pos]) ELSE 0
    IN  Max(psv_lcp, nsv_lcp)

\* A factor length that takes one byte more than the match.
factor_len_plus(m) == m + 1

\* Line 253.
factor_len(m) == Max(1, m)

\* Lines 226-230: construct_isa stores the ISA to the cache.
Lz77Start ==
    /\ pc = "lz77_start"
    /\ z77' = 0
    /\ isa' = construct_isa(sa)
    /\ files' = files \cup {cache_file_name(KEY_ISA, file_map)}
    /\ file_map' = Register(file_map, KEY_ISA, cache_file_name(KEY_ISA, file_map))
    /\ i' = 0
    /\ factors' = <<>>
    /\ pc' = "lz77"
    /\ UNCHANGED <<argc, prefixArg, file, exit_code, out, text, sa, lcp, sigma, r,
                   last, nodes_, v, z78, phrases, phrase_start, dk, x, delta, k>>

\* Lines 232-256: one iteration.
Lz77Step ==
    /\ pc = "lz77"
    /\ i < actual_n
    /\ LET m == max_lcp(text, sa, isa, i)
       IN  /\ i' = i + factor_len(m)
           /\ factors' = Append(factors, [start |-> i, len |-> factor_len(m), max_lcp |-> m])
    /\ z77' = z77 + 1
    /\ UNCHANGED <<argc, prefixArg, file, pc, exit_code, out, files, file_map, text,
                   sa, isa, lcp, sigma, r, last, nodes_, v, z78, phrases,
                   phrase_start, dk, x, delta, k>>

\* Lines 257-259.
Lz77End ==
    /\ pc = "lz77"
    /\ i >= actual_n
    /\ files' = files \ {cache_file_name(KEY_ISA, file_map)}
    /\ out' = Append(out, <<"z77", z77>>)
    /\ pc' = "delta_start"
    /\ UNCHANGED <<argc, prefixArg, file, exit_code, file_map, text, sa, isa, lcp, i,
                   sigma, r, last, nodes_, v, z78, phrases, phrase_start, z77,
                   factors, dk, x, delta, k>>

\* ---------------------------------------------------------------- delta
\* Lines 274-277.
build_dk(l, size) ==
    [j \in 0..(size - 1) |-> Cardinality({p \in 1..(size - 1) : l[p] + 1 = j})]

\* A rational a/b as <<a, b>>, b > 0.
RatLess(p, q) == p[1] * q[2] < q[1] * p[2]

\* std::max(a, b): b when a < b, else a.
RatMax(p, q) == IF RatLess(p, q) THEN q ELSE p

\* An update of x that forgets the "- 1".
next_x_nominus(xx, d) == xx + d

\* Line 282.
next_x(xx, d) == xx + d - 1

\* Lines 262-280. With argc >= 5 the LCP array is read from argv[4] (taken to
\* hold the LCP array of the text), which is registered under KEY_SA (line 268). dk[1] on a dk of size 1 (n = 1) reads
\* past the vector: any value.
DeltaStart ==
    /\ pc = "delta_start"
    /\ lcp' = construct_lcp(text, sa)
    /\ IF argc >= 5
       THEN /\ file_map' = Register(file_map, KEY_SA, ArgLCP)
            /\ files' = files
       ELSE /\ files' = files \cup {cache_file_name(KEY_LCP, file_map)}
            /\ file_map' = Register(file_map, KEY_LCP, cache_file_name(KEY_LCP, file_map))
    /\ dk' = build_dk(construct_lcp(text, sa), n)
    /\ \E x0 \in (IF n >= 2 THEN {build_dk(construct_lcp(text, sa), n)[1]} ELSE 0..1) :
          /\ x' = x0
          /\ delta' = <<x0, 1>>
    /\ k' = 2
    /\ pc' = "delta"
    /\ UNCHANGED <<argc, prefixArg, file, exit_code, out, text, sa, isa, i, sigma, r,
                   last, nodes_, v, z78, phrases, phrase_start, z77, factors>>

\* Lines 281-284: one iteration.
DeltaStep ==
    /\ pc = "delta"
    /\ k < n
    /\ x' = next_x(x, dk[k])
    /\ delta' = RatMax(delta, <<next_x(x, dk[k]), k>>)
    /\ k' = k + 1
    /\ UNCHANGED <<argc, prefixArg, file, pc, exit_code, out, files, file_map, text,
                   sa, isa, lcp, i, sigma, r, last, nodes_, v, z78, phrases,
                   phrase_start, z77, factors, dk>>

\* Lines 285-293: the LCP, SA and text cache files are removed by the names
\* cache_file_name gives; main returns 0.
DeltaEnd ==
    /\ pc = "delta"
    /\ k >= n
    /\ files' = ((files \ {cache_file_name(KEY_LCP, file_map)})
                    \ {cache_file_name(KEY_SA, file_map)})
                    \ {cache_file_name(KEY_TEXT, file_map)}
    /\ out' = Append(out, <<"delta", delta>>)
    /\ exit_code' = 0
    /\ pc' = "exit"
    /\ UNCHANGED <<argc, prefixArg, file, file_map, text, sa, isa, lcp, i, sigma, r,
                   last, nodes_, v, z78, phrases, phrase_start, z77, factors, dk, x,
                   delta, k>>

Next ==
    \/ Usage
    \/ RejectZero
    \/ LoadFile
    \/ LoadEmpty
    \/ SuffixArray
    \/ Header
    \/ BwtStart
    \/ BwtStep
    \/ BwtEnd
    \/ Lz78Start
    \/ Lz78Step
    \/ Lz78End
    \/ Lz77Start
    \/ Lz77Step
    \/ Lz77End
    \/ DeltaStart
    \/ DeltaStep
    \/ DeltaEnd

Spec == Init /\ [][Next]_vars

SpecLong == InitLong /\ [][Next]_vars


\* ---------------------------------------------------------------- references
\* Definitions of the quantities the kernels are meant to compute, written
\* from their mathematical meaning and not from the code.

\* main has returned code.
Returned(code) == pc = "exit" /\ exit_code = code

\* The run has passed the end of the LZ78 block.
AfterLz78 == pc \in {"lz77_start", "lz77", "delta_start", "delta"} \/ Returned(0)

\* The run has passed the end of the LZ77 loop.
AfterLz77 == pc \in {"delta_start", "delta"} \/ Returned(0)

\* The run has passed the end of the BWT loop.
AfterBwt == pc = "lz78_start" \/ pc = "lz78" \/ AfterLz78

\* The value printed for a field, and whether it was printed.
Printed(name) == {out[j][2] : j \in {m \in DOMAIN out : out[m][1] = name}}

\* t[0..n') has an occurrence of t[a..a+l) that starts before a.
OccursEarlier(t, a, l) ==
    l = 0 \/ \E j \in 0..(a - 1) : \A m \in 0..(l - 1) : t[j + m] = t[a + m]

\* L(a): the longest prefix of t[a..n') that also starts at some j < a.
RefL(t, a) ==
    CHOOSE l \in 0..(Size(t) - 1 - a) :
        /\ OccursEarlier(t, a, l)
        /\ \A l2 \in (l + 1)..(Size(t) - 1 - a) : ~OccursEarlier(t, a, l2)

\* Number of phrases of the greedy parse of t[a..n').
RECURSIVE RefZ77(_, _)
RefZ77(t, a) ==
    IF a >= Size(t) - 1 THEN 0 ELSE 1 + RefZ77(t, a + Max(1, RefL(t, a)))

\* Greedy LZ78 with a plain dictionary, from position a with the match cur.
RECURSIVE RefZ78(_, _, _, _)
RefZ78(t, a, dict, cur) ==
    IF a >= Size(t) - 1
    THEN IF cur # <<>> THEN 1 ELSE 0
    ELSE LET w == Append(cur, t[a])
         IN  IF w \in dict
             THEN RefZ78(t, a + 1, dict, w)
             ELSE 1 + RefZ78(t, a + 1, dict \cup {w}, <<>>)

\* D_k: the number of distinct substrings of length kk of t[0..n').
Dk(t, kk) == Cardinality({Sub(t, a, a + kk) : a \in 0..(Size(t) - 1 - kk)})

\* BWT(p) as the specification defines it.
RefBwt(t, s, p) == IF s[p] > 0 THEN t[s[p] - 1] ELSE t[Size(t) - 1]

\* ---------------------------------------------------------------- claims

\* C1: z77 is the number of phrases of the greedy parse with phrase length
\* max(1, L(i)); at every factor start the larger LCE found by the PSV and NSV
\* scans is L(i).
C1_Z77IsGreedy ==
    /\ \A f \in DOMAIN factors : factors[f].max_lcp = RefL(text, factors[f].start)
    /\ AfterLz77 => z77 = RefZ77(text, 0)

\* C2: z78 is the number of phrases of the greedy LZ78 parse computed with a
\* plain dictionary of phrases, the final phrase included.
C2_Z78IsGreedy ==
    AfterLz78 => /\ z78 = RefZ78(text, 0, {}, <<>>)
                 /\ Printed("z78") = {RefZ78(text, 0, {}, <<>>)}

\* C2 witness: a finished LZ78 pass of three phrases or more whose final
\* phrase repeats an earlier one.
C2_Witness ==
    /\ pc = "lz77_start"
    /\ v # ROOT
    /\ z78 >= 3
    /\ phrases[Len(phrases)] \in {phrases[j] : j \in 1..(Len(phrases) - 1)}


\* C3: after the step for kk the running value x is D_kk, for every kk in
\* 1..n', and the delta returned is the maximum over kk in 1..n' of D_kk / kk,
\* compared as rationals (n' >= 1).
C3_DeltaIsMaxDk ==
    (n >= 2 /\ (pc = "delta" \/ Returned(0))) =>
        /\ x = Dk(text, k - 1)
        /\ \A kk \in 1..(k - 1) : ~RatLess(delta, <<Dk(text, kk), kk>>)
        /\ \E kk \in 1..(k - 1) : delta[1] * kk = Dk(text, kk) * delta[2]
        /\ Returned(0) => k = n /\ Printed("delta") = {delta}

\* C3 witness: a finished run whose maximum is taken at a length above one.
C3_Witness ==
    /\ Returned(0)
    /\ delta[2] >= 2
    /\ RatLess(<<Dk(text, 1), 1>>, delta)

\* The number of positions p in [1, n) with BWT(p) # BWT(p-1).
BwtBoundaries == Cardinality({p \in 1..(n - 1) : RefBwt(text, sa, p) # RefBwt(text, sa, p - 1)})

\* The same, leaving out the position that follows the sentinel.
BwtBoundariesAfterText ==
    Cardinality({p \in 1..(n - 1) : /\ RefBwt(text, sa, p - 1) # 0
                                    /\ RefBwt(text, sa, p) # RefBwt(text, sa, p - 1)})

\* C4 as stated: the printed r is the number of positions i in [1, n) with
\* BWT(i) # BWT(i-1).
C4_Original ==
    AfterBwt => r = BwtBoundaries /\ Printed("r") = {BwtBoundaries}

\* C4 as amended: the printed r is the number of positions i in [1, n) with
\* BWT(i) # BWT(i-1) and BWT(i-1) not the sentinel.
C4_RunsSkipSentinel ==
    AfterBwt => r = BwtBoundariesAfterText /\ Printed("r") = {BwtBoundariesAfterText}

\* C4 witness: a finished count on a BWT in which a symbol follows the
\* sentinel and two boundaries are counted.
C4_Witness ==
    /\ AfterBwt
    /\ r >= 2
    /\ \E p \in 1..(n - 1) : RefBwt(text, sa, p - 1) = 0

\* The bytes read from the file, after prefix truncation.
BytesRead == FromSeq(ReadFile(file, argc, prefixArg))

\* C5: for a non-empty sequence of bytes read, a zero byte at a position other
\* than the last ends the run with exit code -2 and nothing written; otherwise
\* the run is not rejected, the loaded text has exactly one zero byte, at its
\* last position, and the printed n is the length of the text minus one.
C5_LoadFile ==
    (argc >= 2 /\ Size(BytesRead) > 0) =>
        IF \E j \in DOMAIN BytesRead : BytesRead[j] = 0 /\ j # Size(BytesRead) - 1
        THEN /\ pc \in {"start", "exit"}
             /\ pc = "exit" => exit_code = -2
             /\ out = <<>>
        ELSE /\ ~Returned(-2)
             /\ pc # "start" =>
                   /\ {j \in DOMAIN text : text[j] = 0} = {Size(text) - 1}
                   /\ Printed("n") \subseteq {Size(text) - 1}
                   /\ pc \notin {"sa", "header"} => Printed("n") # {}

\* C5 witness: a file that ends with a zero byte was loaded and n printed.
C5_Witness ==
    /\ argc >= 2
    /\ Size(BytesRead) >= 2
    /\ BytesRead[Size(BytesRead) - 1] = 0
    /\ Printed("n") = {Size(BytesRead) - 1}

RECURSIVE SumLen(_, _)
SumLen(fs, m) == IF m = 0 THEN 0 ELSE fs[m].len + SumLen(fs, m - 1)

\* C6: the LZ77 loop ends with i = n', the factor lengths sum to n', no factor
\* runs past the end of the text, and every factor longer than one byte has an
\* earlier occurrence that starts before it.
C6_Lz77Factors ==
    /\ pc = "lz77" => i <= actual_n /\ SumLen(factors, Len(factors)) = i
    /\ AfterLz77 => i = actual_n /\ SumLen(factors, Len(factors)) = actual_n
    /\ \A f \in DOMAIN factors :
          /\ factors[f].start + factors[f].len <= actual_n
          /\ factors[f].len > 1 =>
                \E j \in 0..(factors[f].start - 1) :
                    \A m \in 0..(factors[f].len - 1) : text[j + m] = text[factors[f].start + m]

\* C6 witness: a finished loop with a factor longer than one byte.
C6_Witness ==
    /\ AfterLz77
    /\ \E f \in DOMAIN factors : factors[f].len > 1

\* Number of phrases counted inside the loop (the final phrase is the last
\* one when the pass ended away from the root).
LoopPhrases ==
    IF pc = "lz78" \/ v = ROOT THEN Len(phrases) ELSE Len(phrases) - 1

\* Each phrase is an earlier phrase, or the empty string, followed by one byte.
PhrasesExtend ==
    \A a \in DOMAIN phrases :
        /\ Len(phrases[a]) >= 1
        /\ \/ Len(phrases[a]) = 1
           \/ \E b \in 1..(a - 1) : phrases[b] = SubSeq(phrases[a], 1, Len(phrases[a]) - 1)

\* C7 as stated: the phrases counted by z78, the final phrase included, are
\* pairwise distinct, and each is an earlier phrase or the empty string
\* followed by one byte.
C7_Original ==
    /\ Len(phrases) = z78
    /\ \A a, b \in DOMAIN phrases : a # b => phrases[a] # phrases[b]
    /\ PhrasesExtend

\* C7 as amended: the phrases emitted in the loop are pairwise distinct, the
\* final phrase repeats one of them, and each phrase is an earlier phrase or
\* the empty string followed by one byte.
C7_LoopPhrasesDistinct ==
    /\ Len(phrases) = z78
    /\ \A a, b \in 1..LoopPhrases : a # b => phrases[a] # phrases[b]
    /\ \A a \in (LoopPhrases + 1)..Len(phrases) :
          \E b \in 1..LoopPhrases : phrases[b] = phrases[a]
    /\ PhrasesExtend

\* C7 witness: a finished pass with a final phrase and a loop phrase of two
\* bytes.
C7_Witness ==
    /\ pc = "lz77_start"
    /\ v # ROOT
    /\ \E a \in 1..LoopPhrases : Len(phrases[a]) >= 2


\* C8 as stated: on every exit path the files present are those present at the
\* start: every cache file the run created is removed and no file that existed
\* before, the files named by sa-path and lcp-path included, is removed.
C8_FilesRestored ==
    pc = "exit" => files = InitialFiles(argc)

\* The list that starts at w, cut after fuel nodes.
RECURSIVE Chain(_, _, _)
Chain(nodes, w, fuel) ==
    IF w = NIL \/ fuel = 0 THEN <<>>
    ELSE <<w>> \o Chain(nodes, nodes[w].next_sibling, fuel - 1)

\* The list that starts at w reaches NIL within fuel nodes, through nodes of
\* the store only.
RECURSIVE ChainEnds(_, _, _)
ChainEnds(nodes, w, fuel) ==
    IF w = NIL THEN TRUE
    ELSE IF fuel = 0 \/ w \notin DOMAIN nodes THEN FALSE
    ELSE ChainEnds(nodes, nodes[w].next_sibling, fuel - 1)

\* The child list of u, first child first.
Children(nodes, u) == Chain(nodes, nodes[u].first_child, Size(nodes))

Range(q) == {q[j] : j \in DOMAIN q}

\* The nodes whose child list holds w.
Parents(nodes, w) == {u \in DOMAIN nodes : w \in Range(Children(nodes, u))}

\* w reaches the root by at most fuel steps to a parent.
RECURSIVE ReachesRoot(_, _, _)
ReachesRoot(nodes, w, fuel) ==
    IF w = ROOT THEN TRUE
    ELSE IF fuel = 0 \/ Parents(nodes, w) = {} THEN FALSE
    ELSE ReachesRoot(nodes, CHOOSE u \in Parents(nodes, w) : TRUE, fuel - 1)

TrieIsTree(nodes) ==
    /\ ROOT \in DOMAIN nodes
    /\ Parents(nodes, ROOT) = {}
    /\ \A u \in DOMAIN nodes :
          /\ ChainEnds(nodes, nodes[u].first_child, Size(nodes))
          /\ \A a, b \in DOMAIN Children(nodes, u) :
                a # b => /\ Children(nodes, u)[a] # Children(nodes, u)[b]
                         /\ nodes[Children(nodes, u)[a]].label
                               # nodes[Children(nodes, u)[b]].label
    /\ \A w \in DOMAIN nodes \ {ROOT} :
          /\ Cardinality(Parents(nodes, w)) = 1
          /\ ReachesRoot(nodes, w, Size(nodes))

\* Every node keeps its index and its label.
NodesStable ==
    \A w \in DOMAIN nodes_ : w \in DOMAIN nodes_' /\ nodes_'[w].label = nodes_[w].label

\* C9: in every state of the LZ78 loop the trie is a tree rooted at node 0:
\* every non-root node is in the child list of exactly one node, every child
\* list is a finite NIL-terminated chain, the children of a node carry distinct
\* labels, and a node's index and label never change.
C9_TrieIsTree ==
    /\ [](pc = "lz78" => TrieIsTree(nodes_))
    /\ [][NodesStable]_vars

\* C9 witness: a trie with a node of three children and a node at depth two.
C9_Witness ==
    /\ pc = "lz78"
    /\ \E u \in DOMAIN nodes_ : Len(Children(nodes_, u)) >= 3
    /\ \E w \in DOMAIN nodes_ : w # ROOT /\ ROOT \notin Parents(nodes_, w)

\* q without its element w.
RECURSIVE Without(_, _)
Without(q, w) ==
    IF q = <<>> THEN <<>>
    ELSE IF q[1] = w THEN Without(Tail(q), w)
    ELSE <<q[1]>> \o Without(Tail(q), w)

\* What C10 says of the call try_get_child(u, c, out) with out holding o.
TryGetChildContract(nodes, u, c, o) ==
    LET list == Children(nodes, u)
        hits == {w \in Range(list) : nodes[w].label = c}
        res  == try_get_child(nodes, u, c, o)
    IN  IF hits # {}
        THEN LET w == CHOOSE w \in hits : TRUE
             IN  /\ res.found
                 /\ res.out = w
                 /\ DOMAIN res.nodes = DOMAIN nodes
                 /\ Children(res.nodes, u) = <<w>> \o Without(list, w)
                 /\ \A u2 \in DOMAIN nodes \ {u} :
                       Children(res.nodes, u2) = Children(nodes, u2)
        ELSE /\ ~res.found
             /\ res.nodes = nodes
             /\ res.out = o

\* C10: a call that finds a child v of u with label c returns true with
\* out = v, leaves v first in u's list, the other children of u in their
\* previous order and every other child list unchanged; a call that finds none
\* returns false and leaves the trie and out unchanged, also when out is u.
C10_TryGetChild ==
    pc = "lz78" =>
        \A u \in DOMAIN nodes_ : \A c \in 0..MaxByte : \A o \in {u, v, NIL} :
            TryGetChildContract(nodes_, u, c, o)

\* C10 witness: the next call of the loop finds the third child of a node.
C10_Witness ==
    /\ pc = "lz78"
    /\ i < actual_n
    /\ Len(Children(nodes_, v)) >= 3
    /\ nodes_[Children(nodes_, v)[3]].label = text[i]

====
